---- MODULE Spec2Model ----
(***************************************************************************)
(* Model of down-gguf.py: the manifest resolver (get_model_details) and    *)
(* the download orchestrator (main, download_model).                       *)
(*                                                                         *)
(* Strings that the code takes apart (digests, tags, quantization codes)   *)
(* are sequences of characters, so that split(':'), lower(), upper(),      *)
(* startswith() and the substring test are computed, not assumed.  A few   *)
(* multi-letter tokens ("sha256", "sha512", "unknown_quant") stand for the *)
(* letters they are made of; none of them contains ':' or a hex digit run  *)
(* that the code inspects.                                                 *)
(***************************************************************************)
EXTENDS Integers, Sequences, FiniteSets, TLC

\* ------------------------------------------------------------------------
\* Bounds of the model
\* ------------------------------------------------------------------------
MaxLayers == 2
MaxChunks == 2

\* ------------------------------------------------------------------------
\* String helpers
\* ------------------------------------------------------------------------
SetMax(S) == CHOOSE m \in S : \A x \in S : x <= m

\* Python None for model_digest (a value no split() can produce).
None == <<"<None>">>

\* Python truthiness of model_digest: None and "" are falsy.
\* (FalsyNoneOnly: the test written as "model_digest is None".)
FalsyNoneOnly(d) == d = None
Falsy(d) == d = None \/ d = <<>>

\* s.split(':')[-1]: the text after the last ':' (all of s when it has none).
SplitLast(s) ==
    LET colons == {i \in 1..Len(s) : s[i] = ":"}
    IN  IF colons = {} THEN s ELSE SubSeq(s, SetMax(colons) + 1, Len(s))

\* s.startswith("sha256:")
StartsWithSha256(s) == Len(s) >= 2 /\ s[1] = "sha256" /\ s[2] = ":"

LowerChar(c) ==
    CASE c = "Q" -> "q"
      [] c = "K" -> "k"
      [] c = "M" -> "m"
      [] c = "S" -> "s"
      [] c = "L" -> "l"
      [] c = "F" -> "f"
      [] c = "P" -> "p"
      [] c = "B" -> "b"
      [] c = "A" -> "a"
      [] OTHER -> c

UpperChar(c) ==
    CASE c = "q" -> "Q"
      [] c = "k" -> "K"
      [] c = "m" -> "M"
      [] c = "s" -> "S"
      [] c = "l" -> "L"
      [] c = "f" -> "F"
      [] c = "p" -> "P"
      [] c = "b" -> "B"
      [] c = "a" -> "A"
      [] OTHER -> c

\* str.lower() and str.upper()
Lower(s) == [i \in 1..Len(s) |-> LowerChar(s[i])]
Upper(s) == [i \in 1..Len(s) |-> UpperChar(s[i])]

\* p in s  (substring test)
IsSubstring(p, s) ==
    \E i \in 1..(Len(s) - Len(p) + 1) : SubSeq(s, i, i + Len(p) - 1) = p

LowerHexChars == {"0", "1", "2", "3", "4", "5", "6", "7", "8", "9",
                  "a", "b", "c", "d", "e", "f"}
IsLowerHex(s) == Len(s) > 0 /\ \A i \in 1..Len(s) : s[i] \in LowerHexChars

\* ------------------------------------------------------------------------
\* Registry responses (the inputs of get_model_details)
\* ------------------------------------------------------------------------
MODEL_MEDIA_TYPE == "application/vnd.ollama.image.model"
OTHER_MEDIA_TYPE == "application/vnd.ollama.image.license"

DigA     == <<"sha256", ":", "a", "b">>
DigB     == <<"sha256", ":", "c", "d">>
DigEmpty == <<"sha256", ":">>
DigUpper == <<"sha512", ":", "A", "B">>
DigDiff  == <<"sha256", ":", "e", "f">>

LayerDigests  == {DigA, DigB, DigEmpty, DigUpper}
DiffIdDigests == {DigDiff, DigEmpty, DigUpper}

\* A layer is a JSON object; 'digest' may be missing.
Layers ==
    [mediaType : {MODEL_MEDIA_TYPE, OTHER_MEDIA_TYPE}, hasDigest : {TRUE},
     digest : LayerDigests]
    \cup
    [mediaType : {MODEL_MEDIA_TYPE, OTHER_MEDIA_TYPE}, hasDigest : {FALSE},
     digest : {<<>>}]

LayerLists == UNION {[1..n -> Layers] : n \in 0..MaxLayers}

NoManifest == [kind |-> "none", layers |-> <<>>, hasConfigDigest |-> FALSE]

\* kind: "ok" a JSON manifest; "http404", "neterr" the GET of line 41/42
\* raises; "badjson" the body is not JSON.
ManifestResponses ==
    [kind : {"ok"}, layers : LayerLists, hasConfigDigest : BOOLEAN]
    \cup
    [kind : {"http404", "neterr", "badjson"}, layers : {<<>>},
     hasConfigDigest : {FALSE}]

UnknownQuant == <<"unknown_quant">>
Q8_0_Str     == <<"Q", "8", "_", "0">>
Q5_K_M_Str   == <<"Q", "5", "_", "K", "_", "M">>
Q4_0_Str     == <<"Q", "4", "_", "0">>
Q4_K_M_Str   == <<"Q", "4", "_", "K", "_", "M">>

NoConfig ==
    [kind |-> "none", hasNames |-> FALSE, hasFileType |-> FALSE,
     file_type |-> <<>>, hasQuantization |-> FALSE, hasRootfs |-> FALSE,
     diff_ids |-> <<>>]

\* The config blob as a JSON object: 'model_family' and 'model_type' (present
\* together or not at all), 'file_type', 'general.quantization' and
\* 'rootfs.diff_ids', each optional.
ConfigDicts ==
    {[kind |-> "dict", hasNames |-> n, hasFileType |-> ft[1], file_type |-> ft[2],
      hasQuantization |-> q, hasRootfs |-> r[1], diff_ids |-> r[2]] :
        n \in BOOLEAN,
        ft \in {<<FALSE, <<>>>>, <<TRUE, UnknownQuant>>, <<TRUE, <<>>>>,
                <<TRUE, Q8_0_Str>>},
        q \in BOOLEAN,
        r \in {<<FALSE, <<>>>>, <<TRUE, <<>>>>}
              \cup {<<TRUE, <<d>>>> : d \in DiffIdDigests}}

\* kind: "dict" as above; "list" JSON that is not an object; "badjson" a body
\* that is not JSON; "http404", "neterr" the GET of line 60/61 raises.
ConfigResponses ==
    ConfigDicts \cup
    {[NoConfig EXCEPT !.kind = k] : k \in {"list", "badjson", "http404", "neterr"}}

CONFIG_FAMILY     == "llama"
CONFIG_MODEL_TYPE == <<"instruct">>
CONFIG_QUANT      == Q5_K_M_Str

TagLatest   == <<"l", "a", "t", "e", "s", "t">>
TagQ4KM     == <<"3", "b", "-", "i", "n", "s", "t", "r", "u", "c", "t", "-",
                 "q", "4", "_", "k", "_", "m">>
TagUpperQ8  == <<"7", "B", "-", "Q", "8", "_", "0">>
TagTwoCodes == <<"q", "8", "_", "0", "-", "q", "4", "_", "0">>
TagF16      == <<"7", "b", "-", "f", "1", "6">>
Tags == {TagLatest, TagQ4KM, TagUpperQ8, TagTwoCodes, TagF16}

\* ------------------------------------------------------------------------
\* get_model_details (lines 32-122)
\* ------------------------------------------------------------------------
SetMin(S) == CHOOSE m \in S : \A x \in S : m <= x

\* Lines 52-55: the first layer with the model media type decides; its
\* 'digest' is read with layer['digest'], a KeyError when it is missing.
PrimaryStep(layers) ==
    LET hits == {i \in 1..Len(layers) : layers[i].mediaType = MODEL_MEDIA_TYPE}
    IN  IF hits = {} THEN [keyError |-> FALSE, digest |-> None]
        ELSE LET layer == layers[SetMin(hits)]
             IN  IF ~layer.hasDigest
                 THEN [keyError |-> TRUE, digest |-> None]
                 ELSE [keyError |-> FALSE, digest |-> SplitLast(layer.digest)]

\* Line 57: the condition under which the config blob is requested.
\* (ConfigNeededAlways: the test without "not model_digest".)
ConfigNeededAlways(manifest, model_digest) == manifest.hasConfigDigest
ConfigNeeded(manifest, model_digest) ==
    Falsy(model_digest) /\ manifest.hasConfigDigest

\* Line 88 and line 69: file_type is the sentinel or empty.
FileTypeUnset(file_type) == file_type = UnknownQuant \/ file_type = <<>>

\* Lines 64-70: config_data after reading a config blob that is a JSON object.
\* (ApplyConfigQuantFirst: general.quantization written without the test
\* of line 69.)
ApplyConfigQuantFirst(config_data, t) ==
    [model_family |-> IF t.hasNames THEN CONFIG_FAMILY ELSE config_data.model_family,
     model_type   |-> IF t.hasNames THEN CONFIG_MODEL_TYPE ELSE config_data.model_type,
     file_type    |-> IF t.hasQuantization THEN CONFIG_QUANT
                      ELSE IF t.hasFileType THEN t.file_type
                      ELSE config_data.file_type]
ApplyConfig(config_data, t) ==
    LET family == IF t.hasNames THEN CONFIG_FAMILY ELSE config_data.model_family
        type   == IF t.hasNames THEN CONFIG_MODEL_TYPE ELSE config_data.model_type
        ft     == IF t.hasFileType THEN t.file_type ELSE config_data.file_type
    IN  [model_family |-> family,
         model_type   |-> type,
         file_type    |-> IF t.hasQuantization /\ FileTypeUnset(ft)
                          THEN CONFIG_QUANT ELSE ft]

\* Lines 71-72: the digest after reading the config blob.
\* (ConfigDigestUnstripped: the diff-id taken without split(':')[-1].)
ConfigDigestUnstripped(t, model_digest) ==
    IF t.hasRootfs /\ t.diff_ids # <<>> THEN t.diff_ids[1] ELSE model_digest
ConfigDigest(t, model_digest) ==
    IF t.hasRootfs /\ t.diff_ids # <<>>
    THEN SplitLast(t.diff_ids[1])
    ELSE model_digest

\* Line 78: the condition under which the first layer is consulted.
\* (FallbackNeededAlways: the test without "not model_digest".)
FallbackNeededAlways(manifest, model_digest) == manifest.layers # <<>>
FallbackNeeded(manifest, model_digest) ==
    Falsy(model_digest) /\ manifest.layers # <<>>

\* Lines 89-107: the quantization code read off the tag.  quant_patterns in
\* the order of the dict literal.
quant_patterns ==
    << [quant |-> <<"q", "4", "_", "0">>, patterns |-> << <<"q", "4", "_", "0">> >>],
       [quant |-> <<"q", "4", "_", "1">>, patterns |-> << <<"q", "4", "_", "1">> >>],
       [quant |-> <<"q", "5", "_", "0">>, patterns |-> << <<"q", "5", "_", "0">> >>],
       [quant |-> <<"q", "5", "_", "1">>, patterns |-> << <<"q", "5", "_", "1">> >>],
       [quant |-> <<"q", "8", "_", "0">>, patterns |-> << <<"q", "8", "_", "0">> >>],
       [quant |-> <<"q", "2", "_", "k">>, patterns |-> << <<"q", "2", "_", "k">> >>],
       [quant |-> <<"q", "3", "_", "k", "_", "s">>,
        patterns |-> << <<"q", "3", "_", "k", "_", "s">> >>],
       [quant |-> <<"q", "3", "_", "k", "_", "m">>,
        patterns |-> << <<"q", "3", "_", "k", "_", "m">> >>],
       [quant |-> <<"q", "3", "_", "k", "_", "l">>,
        patterns |-> << <<"q", "3", "_", "k", "_", "l">> >>],
       [quant |-> <<"q", "4", "_", "k", "_", "s">>,
        patterns |-> << <<"q", "4", "_", "k", "_", "s">> >>],
       [quant |-> <<"q", "4", "_", "k", "_", "m">>,
        patterns |-> << <<"q", "4", "_", "k", "_", "m">> >>],
       [quant |-> <<"q", "5", "_", "k", "_", "s">>,
        patterns |-> << <<"q", "5", "_", "k", "_", "s">> >>],
       [quant |-> <<"q", "5", "_", "k", "_", "m">>,
        patterns |-> << <<"q", "5", "_", "k", "_", "m">> >>],
       [quant |-> <<"q", "6", "_", "k">>, patterns |-> << <<"q", "6", "_", "k">> >>],
       [quant |-> <<"f", "p", "1", "6">>,
        patterns |-> << <<"f", "1", "6">>, <<"f", "p", "1", "6">> >>] >>

\* (InferQuantNoLower: the tag tested as typed, without lower().)
InferQuantNoLower(model_params) ==
    LET hits == {i \in 1..Len(quant_patterns) :
                    \E j \in 1..Len(quant_patterns[i].patterns) :
                        IsSubstring(quant_patterns[i].patterns[j], model_params)}
    IN  IF hits = {}
        THEN [file_type |-> Q4_0_Str, found |-> FALSE]
        ELSE [file_type |-> Upper(quant_patterns[SetMin(hits)].quant), found |-> TRUE]
InferQuant(model_params) ==
    LET tag_lower == Lower(model_params)
        hits == {i \in 1..Len(quant_patterns) :
                    \E j \in 1..Len(quant_patterns[i].patterns) :
                        IsSubstring(quant_patterns[i].patterns[j], tag_lower)}
    IN  IF hits = {}
        THEN [file_type |-> Q4_0_Str, found |-> FALSE]
        ELSE [file_type |-> Upper(quant_patterns[SetMin(hits)].quant), found |-> TRUE]

\* What get_model_details hands back: the returned dict when ok, else the
\* kind of the exception raised.  configStepRan, fallbackRan and warnings
\* record which steps of the chain were entered and what was printed.
Failure(error, configStepRan, fallbackRan, warnings) ==
    [ok |-> FALSE, error |-> error, digest |-> None,
     model_family |-> "", model_type |-> <<>>, file_type |-> <<>>,
     configStepRan |-> configStepRan, fallbackRan |-> fallbackRan,
     warnings |-> warnings]

NoResult == Failure("none", FALSE, FALSE, {})

\* Lines 85-114, entered with the digest and config_data the chain produced.
FinishResolve(model_params, model_digest, config_data, cfgRan, fbRan, warnings) ==
    IF Falsy(model_digest)
    THEN Failure("ResolutionError", cfgRan, fbRan, warnings)
    ELSE LET infer == FileTypeUnset(config_data.file_type)
             q     == InferQuant(model_params)
         IN  [ok |-> TRUE, error |-> "none", digest |-> model_digest,
              model_family |-> config_data.model_family,
              model_type   |-> config_data.model_type,
              file_type    |-> IF infer THEN q.file_type ELSE config_data.file_type,
              configStepRan |-> cfgRan, fallbackRan |-> fbRan,
              warnings |-> IF infer /\ ~q.found
                           THEN warnings \cup {"default_quant"} ELSE warnings]

\* Lines 78-114, entered after the config step.
FallbackAndFinish(model_params, manifest, model_digest, config_data, cfgRan, warnings) ==
    IF FallbackNeeded(manifest, model_digest)
    THEN IF manifest.layers[1].hasDigest
         THEN FinishResolve(model_params, SplitLast(manifest.layers[1].digest),
                            config_data, cfgRan, TRUE,
                            warnings \cup {"first_layer_fallback"})
         ELSE Failure("ResolutionError", cfgRan, TRUE, warnings)
    ELSE FinishResolve(model_params, model_digest, config_data, cfgRan, FALSE, warnings)

\* Lines 57-76: what a failed GET of the config blob leads to.  The GET and
\* raise_for_status (lines 60-61) stand before the inner try, so the
\* exception leaves the function through the handler of line 115.
ConfigFetchFailure(cresp) ==
    IF cresp.kind = "http404" THEN "NotFoundError" ELSE "NetworkError"

get_model_details(model_name, model_params, mresp, cresp) ==
    IF mresp.kind = "http404" THEN Failure("NotFoundError", FALSE, FALSE, {})
    ELSE IF mresp.kind = "neterr" THEN Failure("NetworkError", FALSE, FALSE, {})
    ELSE IF mresp.kind = "badjson" THEN Failure("ParseError", FALSE, FALSE, {})
    ELSE
    LET config_data == [model_family |-> model_name, model_type |-> model_params,
                        file_type |-> UnknownQuant]
        primary == PrimaryStep(mresp.layers)
    IN  IF primary.keyError THEN Failure("ResolutionError", FALSE, FALSE, {})
        ELSE IF ~ConfigNeeded(mresp, primary.digest)
        THEN FallbackAndFinish(model_params, mresp, primary.digest, config_data,
                               FALSE, {})
        ELSE IF cresp.kind \in {"http404", "neterr"}
        THEN Failure(ConfigFetchFailure(cresp), TRUE, FALSE, {})
        ELSE IF cresp.kind = "badjson"
        THEN FallbackAndFinish(model_params, mresp, primary.digest, config_data,
                               TRUE, {"config_not_json"})
        ELSE IF cresp.kind = "list"
        THEN FallbackAndFinish(model_params, mresp, primary.digest, config_data,
                               TRUE, {})
        ELSE FallbackAndFinish(model_params, mresp,
                               ConfigDigest(cresp, primary.digest),
                               ApplyConfig(config_data, cresp), TRUE, {})

\* ------------------------------------------------------------------------
\* Blob responses (the input of download_model's requests branch)
\* ------------------------------------------------------------------------
NoResponse == [kind |-> "none", status |-> "none", json |-> FALSE, body |-> "none"]

\* kind "connecterr": requests.get itself raises (connect timeout, DNS).
\* kind "response": a status ("ok", "404", "500"), a content type that is
\* JSON or not, and for JSON the body: "message" an object whose 'errors'
\* is missing or starts with an object, "emptyerrors" an object with
\* 'errors': [], "unparsable" not JSON after all, "notdict" JSON that is
\* not an object.
BlobResponses ==
    {[NoResponse EXCEPT !.kind = "connecterr"]}
    \cup [kind : {"response"}, status : {"ok", "404", "500"}, json : {FALSE},
          body : {"binary"}]
    \cup [kind : {"response"}, status : {"ok", "404", "500"}, json : {TRUE},
          body : {"message", "emptyerrors", "unparsable", "notdict"}]

\* ------------------------------------------------------------------------
\* State
\* ------------------------------------------------------------------------
VARIABLES
    pc,                        \* position of main: a state of the flow
    history,                   \* the flow states entered so far, in order
    model_name, model_params,  \* what get_model_info returned
    manifest, config,          \* the registry's responses to get_model_details
    result,                    \* what get_model_details returned or raised
    resolveCount,              \* calls of get_model_details
    downloader_choice,         \* "requests", "axel" or "aria2c"
    user_confirmed_overwrite,
    fs,                        \* the destination file and its renamed sibling
    fs0,                       \* the destination file when main started
    preRemove,                 \* the os.remove of line 285: none, ok, failed
    cleanup,                   \* the os.remove of lines 179/203/238
    invokeCount,               \* backend invocations (subprocess.run, requests.get)
    blobRequests,              \* network requests for the blob
    cmdOverwriteFlag,          \* --allow-overwrite=true is on the command line
    destAtInvoke,              \* the destination file when the backend started
    streamPos,                 \* requests backend: notstarted, reading, closed
    fileOpened,                \* requests backend: open(filename, 'wb') happened
    chunks,                    \* requests backend: chunks written
    response,                  \* requests backend: what requests.get came back with
    failure                    \* the exception download_model raised, or "none"

vars == <<pc, history, model_name, model_params, manifest, config, result,
          resolveCount, downloader_choice, user_confirmed_overwrite, fs, fs0,
          preRemove, cleanup, invokeCount, blobRequests, cmdOverwriteFlag,
          destAtInvoke, streamPos, fileOpened, chunks, response, failure>>

resolveVars  == <<manifest, config, result, resolveCount>>
downloadVars == <<downloader_choice, user_confirmed_overwrite, fs, preRemove,
                  cleanup, invokeCount, blobRequests, cmdOverwriteFlag,
                  destAtInvoke, streamPos, fileOpened, chunks, response, failure>>

\* The state before main has read anything, with the destination file
\* present ("orig") or not.
InitCommon ==
    /\ history = <<pc>>
    /\ manifest = NoManifest
    /\ config = NoConfig
    /\ result = NoResult
    /\ resolveCount = 0
    /\ downloader_choice = "requests"
    /\ user_confirmed_overwrite = FALSE
    /\ fs0 \in {"absent", "orig"}
    /\ fs = [dest |-> fs0, sibling |-> "absent"]
    /\ preRemove = "none"
    /\ cleanup = "none"
    /\ invokeCount = 0
    /\ blobRequests = 0
    /\ cmdOverwriteFlag = FALSE
    /\ destAtInvoke = "none"
    /\ streamPos = "notstarted"
    /\ fileOpened = FALSE
    /\ chunks = 0
    /\ response = NoResponse
    /\ failure = "none"

\* Line 57 as seen from outside: the manifest makes get_model_details request
\* the config blob.
RequestsConfig(mresp) ==
    /\ mresp.kind = "ok"
    /\ ~PrimaryStep(mresp.layers).keyError
    /\ ConfigNeeded(mresp, PrimaryStep(mresp.layers).digest)

\* Lines 257 and 298: main goes on after a return and stops after a raise.
\* (AfterResolveAlwaysOn: the raise swallowed.)
AfterResolveAlwaysOn(res) == "Resolved"
AfterResolve(res) == IF res.ok THEN "Resolved" ELSE "ResolutionFailed"

\* ------------------------------------------------------------------------
\* The resolver alone: get_model_details applied to every response
\* ------------------------------------------------------------------------
InitResolve ==
    /\ pc = "Resolving"
    /\ model_name = "phi3"
    /\ model_params \in Tags
    /\ InitCommon

\* get_model_details on a manifest that does not lead to the config blob.
ResolveFromManifest ==
    /\ pc = "Resolving"
    /\ \E m \in ManifestResponses :
          /\ ~RequestsConfig(m)
          /\ manifest' = m
          /\ config' = NoConfig
          /\ result' = get_model_details(model_name, model_params, m, NoConfig)
    /\ resolveCount' = resolveCount + 1
    /\ pc' = AfterResolve(result')
    /\ history' = Append(history, pc')
    /\ UNCHANGED <<model_name, model_params, fs0, downloadVars>>

\* get_model_details on a manifest that leads to the config blob.
ResolveViaConfig ==
    /\ pc = "Resolving"
    /\ \E m \in ManifestResponses, c \in ConfigResponses :
          /\ RequestsConfig(m)
          /\ manifest' = m
          /\ config' = c
          /\ result' = get_model_details(model_name, model_params, m, c)
    /\ resolveCount' = resolveCount + 1
    /\ pc' = AfterResolve(result')
    /\ history' = Append(history, pc')
    /\ UNCHANGED <<model_name, model_params, fs0, downloadVars>>

NextResolve == ResolveFromManifest \/ ResolveViaConfig

SpecResolve == InitResolve /\ [][NextResolve]_vars

\* ------------------------------------------------------------------------
\* main (lines 246-305) and download_model (lines 161-243)
\* ------------------------------------------------------------------------
Init ==
    /\ pc = "Idle"
    /\ model_name = ""
    /\ model_params = <<>>
    /\ InitCommon

Enter(state) ==
    /\ pc' = state
    /\ history' = Append(history, state)

\* Lines 251-254: empty input ends the run before anything is fetched.
AfterInput(name, params) ==
    IF name = "" \/ params = <<>> THEN "Exited" ELSE "Resolving"

GetModelInfo ==
    /\ pc = "Idle"
    /\ \E name \in {"phi3", ""}, params \in Tags \cup {<<>>} :
          /\ model_name' = name
          /\ model_params' = params
          /\ Enter(AfterInput(name, params))
    /\ UNCHANGED <<resolveVars, fs0, downloadVars>>

\* Line 257: get_model_details on whatever the registry answers.  The
\* responses are locals of get_model_details and are gone when it returns.
GetModelDetails ==
    /\ pc = "Resolving"
    /\ \E m \in ManifestResponses :
          \E c \in IF RequestsConfig(m) THEN ConfigResponses ELSE {NoConfig} :
              result' = get_model_details(model_name, model_params, m, c)
    /\ resolveCount' = resolveCount + 1
    /\ Enter(AfterResolve(result'))
    /\ UNCHANGED <<model_name, model_params, manifest, config, fs0, downloadVars>>

\* Lines 162-164: the digest segment of the blob URL.
\* (BlobDigestArgBare: the digest put into the URL as resolved.)
BlobDigestArgBare(digest_hash) == digest_hash
BlobDigestArg(digest_hash) ==
    IF StartsWithSha256(digest_hash) THEN digest_hash
    ELSE <<"sha256", ":">> \o digest_hash

\* select_download_manager (lines 135-159): "requests" or one of the
\* external programs found on the PATH.
DownloaderChoices(available) == {"requests"} \cup available

\* Lines 279-291: with the file there and no 'y', main returns.
\* (AfterOverwritePromptAlwaysOn: the return of line 291 left out.)
AfterOverwritePromptAlwaysOn(exists, confirmed) == "Downloading"
AfterOverwritePrompt(exists, confirmed) ==
    IF exists /\ ~confirmed THEN "Aborted" ELSE "Downloading"

\* Line 283: the existing file is removed up front for axel only.
\* (PreRemoveNeededNever: the removal left to axel.  PreRemoveNeededAlways:
\* the removal done for every backend.)
PreRemoveNeededNever(choice) == FALSE
PreRemoveNeededAlways(choice) == TRUE
PreRemoveNeeded(choice) == choice = "axel"

\* Lines 264-293 up to the call of download_model.
PrepareDownload ==
    /\ pc = "Resolved"
    /\ \E available \in SUBSET {"axel", "aria2c"} :
       \E choice \in DownloaderChoices(available) :
       \E answer \in BOOLEAN, removeOk \in BOOLEAN :
          LET exists    == fs.dest # "absent"
              confirmed == exists /\ answer
              remove    == confirmed /\ PreRemoveNeeded(choice)
          IN  /\ exists \/ ~answer
              /\ remove \/ removeOk
              /\ downloader_choice' = choice
              /\ user_confirmed_overwrite' = confirmed
              /\ preRemove' = IF ~remove THEN "none"
                              ELSE IF removeOk THEN "ok" ELSE "failed"
              /\ fs' = IF remove /\ removeOk THEN [fs EXCEPT !.dest = "absent"] ELSE fs
              /\ Enter(AfterOverwritePrompt(exists, confirmed))
    /\ UNCHANGED <<model_name, model_params, resolveVars, fs0, cleanup,
                   invokeCount, blobRequests, cmdOverwriteFlag, destAtInvoke,
                   streamPos, fileOpened, chunks, response, failure>>

\* Lines 179, 203, 238: if os.path.exists(filename): try os.remove(filename),
\* an OSError is passed over.  The source writes the if, the try and its
\* handler on one line (with "catch" for "except" in lines 179 and 203),
\* which the Python parser rejects; the model takes the statement the line
\* spells out.  The file after the handler, and what the remove did.
\* (NoCleanup: the handler without the remove.)
\* (RemovePartialOnly: only a file this run wrote is removed.)
NoCleanup(dest, removeOk) == dest
RemovePartialOnly(dest, removeOk) ==
    IF dest = "partial" /\ removeOk THEN "absent" ELSE dest
AxelCleanup(dest, removeOk) ==
    IF dest # "absent" /\ removeOk THEN "absent" ELSE dest
Aria2cCleanup(dest, removeOk) ==
    IF dest # "absent" /\ removeOk THEN "absent" ELSE dest
RequestsCleanup(dest, removeOk) ==
    IF dest # "absent" /\ removeOk THEN "absent" ELSE dest
CleanupOutcome(dest, removeOk) ==
    IF dest = "absent" THEN "notneeded" ELSE IF removeOk THEN "ok" ELSE "failed"

\* axel's upstream behaviour (comment of line 283): with the output file
\* already there it writes to a renamed sibling.
AxelWrites(files, content) ==
    IF files.dest = "absent" THEN [files EXCEPT !.dest = content]
    ELSE [files EXCEPT !.sibling = content]

\* aria2c writes the output file itself.
Aria2cWrites(files, content) == [files EXCEPT !.dest = content]

\* Lines 191-192: the flag is appended when overwrite was confirmed.
Aria2cOverwriteFlag(confirmed) == confirmed

\* Lines 169-180.  subprocess.run ends in FileNotFoundError, exit code 0 or
\* CalledProcessError; a failed run leaves a partial file or nothing.
RunAxel ==
    /\ pc = "Downloading" /\ downloader_choice = "axel" /\ invokeCount = 0
    /\ invokeCount' = invokeCount + 1
    /\ destAtInvoke' = fs.dest
    /\ cmdOverwriteFlag' = FALSE
    /\ \E outcome \in {"notfound", "exit0", "nonzero"},
          wrote \in BOOLEAN, removeOk \in BOOLEAN :
          \/ /\ outcome = "notfound" /\ wrote /\ removeOk
             /\ failure' = "BackendUnavailableError"
             /\ UNCHANGED <<fs, cleanup, blobRequests>>
             /\ Enter("DownloadFailed")
          \/ /\ outcome = "exit0" /\ wrote /\ removeOk
             /\ fs' = AxelWrites(fs, "complete")
             /\ blobRequests' = blobRequests + 1
             /\ UNCHANGED <<failure, cleanup>>
             /\ Enter("Downloaded")
          \/ /\ outcome = "nonzero"
             /\ LET after == IF wrote THEN AxelWrites(fs, "partial") ELSE fs
                IN  /\ after.dest # "absent" \/ removeOk
                    /\ fs' = [after EXCEPT !.dest = AxelCleanup(after.dest, removeOk)]
                    /\ cleanup' = CleanupOutcome(after.dest, removeOk)
             /\ blobRequests' = blobRequests + 1
             /\ failure' = "ExitCodeError"
             /\ Enter("DownloadFailed")
    /\ UNCHANGED <<model_name, model_params, resolveVars, fs0, downloader_choice,
                   user_confirmed_overwrite, preRemove, streamPos, fileOpened, chunks,
                   response>>

\* Lines 182-204.
RunAria2c ==
    /\ pc = "Downloading" /\ downloader_choice = "aria2c" /\ invokeCount = 0
    /\ invokeCount' = invokeCount + 1
    /\ destAtInvoke' = fs.dest
    /\ cmdOverwriteFlag' = Aria2cOverwriteFlag(user_confirmed_overwrite)
    /\ \E outcome \in {"notfound", "exit0", "nonzero"},
          wrote \in BOOLEAN, removeOk \in BOOLEAN :
          \/ /\ outcome = "notfound" /\ wrote /\ removeOk
             /\ failure' = "BackendUnavailableError"
             /\ UNCHANGED <<fs, cleanup, blobRequests>>
             /\ Enter("DownloadFailed")
          \/ /\ outcome = "exit0" /\ wrote /\ removeOk
             /\ fs' = Aria2cWrites(fs, "complete")
             /\ blobRequests' = blobRequests + 1
             /\ UNCHANGED <<failure, cleanup>>
             /\ Enter("Downloaded")
          \/ /\ outcome = "nonzero"
             /\ LET after == IF wrote THEN Aria2cWrites(fs, "partial") ELSE fs
                IN  /\ after.dest # "absent" \/ removeOk
                    /\ fs' = [after EXCEPT !.dest = Aria2cCleanup(after.dest, removeOk)]
                    /\ cleanup' = CleanupOutcome(after.dest, removeOk)
             /\ blobRequests' = blobRequests + 1
             /\ failure' = "ExitCodeError"
             /\ Enter("DownloadFailed")
    /\ UNCHANGED <<model_name, model_params, resolveVars, fs0, downloader_choice,
                   user_confirmed_overwrite, preRemove, streamPos, fileOpened, chunks,
                   response>>

\* Line 237: the handler takes requests.exceptions.RequestException only
\* (a failed connection, the HTTPError of raise_for_status, a broken stream).
CaughtByCleanupHandler(exception) ==
    exception \in {"TransportError", "HttpError", "BlobNotFound"}

\* Lines 237-241 for an exception raised inside the try of line 208: the
\* file afterwards and what the remove did.
AfterException(exception, dest, removeOk) ==
    IF CaughtByCleanupHandler(exception)
    THEN [dest |-> RequestsCleanup(dest, removeOk),
          cleanup |-> CleanupOutcome(dest, removeOk)]
    ELSE [dest |-> dest, cleanup |-> "none"]

\* download_model raises `exception` while the file is `dest`.
RaiseInRequests(exception, dest) ==
    \E removeOk \in BOOLEAN :
        /\ (CaughtByCleanupHandler(exception) /\ dest # "absent") \/ removeOk
        /\ fs' = [fs EXCEPT !.dest = AfterException(exception, dest, removeOk).dest]
        /\ cleanup' = AfterException(exception, dest, removeOk).cleanup
        /\ failure' = exception
        /\ Enter("DownloadFailed")

\* Lines 209-218: what the response leads to before the file is opened: the
\* exception raised, or "open".  The status is checked first (line 210), the
\* content type after it (line 212); a JSON body gives the server's message
\* (line 216), the generic error when json() or errors[0] fails (line 218),
\* and an AttributeError when it is no object (error_data.get).
\* (RequestsOutcomeNoJsonCheck: the content type not looked at.)
RequestsOutcomeNoJsonCheck(resp) ==
    IF resp.kind = "connecterr" THEN "TransportError"
    ELSE IF resp.status = "404" THEN "BlobNotFound"
    ELSE IF resp.status # "ok" THEN "HttpError"
    ELSE "open"
RequestsOutcome(resp) ==
    IF resp.kind = "connecterr" THEN "TransportError"
    ELSE IF resp.status = "404" THEN "BlobNotFound"
    ELSE IF resp.status # "ok" THEN "HttpError"
    ELSE IF ~resp.json THEN "open"
    ELSE IF resp.body = "message" THEN "ServerJsonError"
    ELSE IF resp.body \in {"emptyerrors", "unparsable"} THEN "ServerNonBinaryError"
    ELSE "AttributeError"

\* Lines 207-224: the GET, the status check, the content-type check and the
\* open of the destination file (which may fail with an OSError).
RequestsGet ==
    /\ pc = "Downloading" /\ downloader_choice = "requests" /\ invokeCount = 0
    /\ invokeCount' = invokeCount + 1
    /\ blobRequests' = blobRequests + 1
    /\ destAtInvoke' = fs.dest
    /\ \E resp \in BlobResponses, openOk \in BOOLEAN :
          /\ response' = resp
          /\ \/ /\ RequestsOutcome(resp) # "open" /\ openOk
                /\ RaiseInRequests(RequestsOutcome(resp), fs.dest)
                /\ UNCHANGED <<streamPos, fileOpened>>
             \/ /\ RequestsOutcome(resp) = "open" /\ ~openOk
                /\ RaiseInRequests("OSError", fs.dest)
                /\ UNCHANGED <<streamPos, fileOpened>>
             \/ /\ RequestsOutcome(resp) = "open" /\ openOk
                /\ fs' = [fs EXCEPT !.dest = "partial"]
                /\ fileOpened' = TRUE
                /\ streamPos' = "reading"
                /\ UNCHANGED <<pc, history, cleanup, failure>>
    /\ UNCHANGED <<model_name, model_params, resolveVars, fs0, downloader_choice,
                   user_confirmed_overwrite, preRemove, cmdOverwriteFlag, chunks>>

streamFrame == <<model_name, model_params, resolveVars, fs0, downloader_choice,
                 user_confirmed_overwrite, preRemove, invokeCount, blobRequests,
                 cmdOverwriteFlag, destAtInvoke, fileOpened, response>>

\* Lines 225-233: one chunk read and written.
StreamChunk ==
    /\ pc = "Downloading" /\ streamPos = "reading" /\ chunks < MaxChunks
    /\ chunks' = chunks + 1
    /\ UNCHANGED <<pc, history, fs, cleanup, failure, streamPos>>
    /\ UNCHANGED streamFrame

\* Lines 234-236: the body ended, the file is closed and complete.
StreamComplete ==
    /\ pc = "Downloading" /\ streamPos = "reading"
    /\ fs' = [fs EXCEPT !.dest = "complete"]
    /\ streamPos' = "closed"
    /\ Enter("Downloaded")
    /\ UNCHANGED <<cleanup, failure, chunks>>
    /\ UNCHANGED streamFrame

\* Lines 225-241: the loop is left by an exception; the with blocks close
\* the file and the connection.  A transport failure (RequestException), an
\* OSError of f.write, or the user's interrupt (KeyboardInterrupt).
StreamException ==
    /\ pc = "Downloading" /\ streamPos = "reading"
    /\ \E exception \in {"TransportError", "OSError", "KeyboardInterrupt"} :
          RaiseInRequests(exception, fs.dest)
    /\ streamPos' = "closed"
    /\ UNCHANGED chunks
    /\ UNCHANGED streamFrame

Next ==
    \/ GetModelInfo
    \/ GetModelDetails
    \/ PrepareDownload
    \/ RunAxel
    \/ RunAria2c
    \/ RequestsGet
    \/ StreamChunk
    \/ StreamComplete
    \/ StreamException

Spec == Init /\ [][Next]_vars

\* ========================================================================
\* Claims about the resolver (checked under SpecResolve, where the
\* responses stay in the state next to the result)
\* ========================================================================

\* get_model_details has returned or raised for a manifest that was JSON.
ResolveDone == pc \in {"Resolved", "ResolutionFailed"} /\ manifest.kind = "ok"

\* The hex part of a digest "<algorithm>:<hex>": what follows the first ':'.
HexPart(d) ==
    LET colons == {i \in 1..Len(d) : d[i] = ":"}
    IN  IF colons = {} THEN d ELSE SubSeq(d, SetMin(colons) + 1, Len(d))

ModelLayerIndexes(m) ==
    {i \in 1..Len(m.layers) : m.layers[i].mediaType = MODEL_MEDIA_TYPE}
HasModelLayer(m) == ModelLayerIndexes(m) # {}
FirstModelLayer(m) == m.layers[SetMin(ModelLayerIndexes(m))]

\* The layer has a digest whose hex part is not empty.
UsableLayer(layer) == layer.hasDigest /\ HexPart(layer.digest) # <<>>

\* The config blob has a rootfs with a non-empty diff_ids list.
HasDiffIds(c) == c.kind = "dict" /\ c.hasRootfs /\ c.diff_ids # <<>>

C1_Conclusion ==
    /\ result.ok
    /\ FirstModelLayer(manifest).hasDigest
    /\ result.digest = HexPart(FirstModelLayer(manifest).digest)
    /\ ~result.configStepRan
    /\ ~result.fallbackRan

\* C1 as stated: for every manifest with a model-weights layer, resolve
\* returns the first such layer's digest with the prefix stripped, and
\* neither the config step nor the first-layer fallback runs.
C1_AsStated ==
    (ResolveDone /\ HasModelLayer(manifest)) => C1_Conclusion

\* C1 (amended): for every manifest whose first model-weights layer has a
\* digest field with a non-empty hex part, resolve returns that digest with
\* the algorithm prefix stripped, and neither the config-blob step nor the
\* first-layer fallback runs or changes it.
C1_PrimaryDigestWins ==
    (ResolveDone /\ HasModelLayer(manifest) /\ UsableLayer(FirstModelLayer(manifest)))
        => C1_Conclusion

\* The model layer is the second layer, after a layer with another digest,
\* and the manifest has a config digest: both later steps had something to use.
C1_Witness ==
    /\ ResolveDone /\ result.ok
    /\ Len(manifest.layers) = 2
    /\ ModelLayerIndexes(manifest) = {2}
    /\ manifest.layers[1] = [mediaType |-> OTHER_MEDIA_TYPE, hasDigest |-> TRUE,
                             digest |-> DigA]
    /\ manifest.layers[2].digest = DigB
    /\ manifest.hasConfigDigest
    /\ result.digest = <<"c", "d">>

\* The primary step ended without a digest (no model layer, or one whose hex
\* part is empty) and the manifest names a config blob.
C2_ConfigStepCase ==
    /\ ResolveDone
    /\ (~HasModelLayer(manifest)
        \/ (FirstModelLayer(manifest).hasDigest
            /\ HexPart(FirstModelLayer(manifest).digest) = <<>>))
    /\ manifest.hasConfigDigest

\* C2 as stated: a network failure or a parse failure of the config blob is
\* only a warning; resolution goes on to the first-layer fallback, so a
\* manifest whose first layer has a (non-empty) digest still resolves.
C2_ConfigFailureIsWarning ==
    (/\ C2_ConfigStepCase
     /\ config.kind \in {"http404", "neterr", "badjson"}
     /\ manifest.layers # <<>>
     /\ UsableLayer(manifest.layers[1]))
        => (/\ result.ok
            /\ result.fallbackRan
            /\ result.digest = HexPart(manifest.layers[1].digest))

\* Every digest string the responses carry.
SourceDigests ==
    {manifest.layers[i].digest :
        i \in {j \in 1..Len(manifest.layers) : manifest.layers[j].hasDigest}}
    \cup {config.diff_ids[i] : i \in 1..Len(config.diff_ids)}

\* No step can yield a digest: no usable model layer, no usable diff-id
\* (the config blob was not requested, or was read without a fetch error),
\* no usable first layer.
NoUsableDigest ==
    /\ ResolveDone
    /\ ~(HasModelLayer(manifest) /\ UsableLayer(FirstModelLayer(manifest)))
    /\ config.kind \in {"none", "list", "badjson", "dict"}
    /\ ~(HasDiffIds(config) /\ HexPart(config.diff_ids[1]) # <<>>)
    /\ (manifest.layers = <<>> \/ ~UsableLayer(manifest.layers[1]))

C9_FailsWithoutDigest ==
    NoUsableDigest => (~result.ok /\ result.error = "ResolutionError")

C10_Case ==
    /\ ResolveDone
    /\ ~HasModelLayer(manifest)
    /\ manifest.hasConfigDigest
    /\ HasDiffIds(config)

C10_Conclusion ==
    /\ result.ok
    /\ result.digest = HexPart(config.diff_ids[1])
    /\ ~result.fallbackRan

\* C10 as stated: with no model layer and a config blob that has a non-empty
\* rootfs.diff_ids, resolve returns the first diff-id with its prefix
\* stripped and the first-layer fallback is not used.
C10_AsStated == C10_Case => C10_Conclusion

\* C10 (amended): the same, for a first diff-id whose hex part is not empty.
C10_DiffIdDigest ==
    (C10_Case /\ HexPart(config.diff_ids[1]) # <<>>) => C10_Conclusion

\* "sha256:ef" gives "ef" although the first layer has a digest of its own.
C10_Witness ==
    /\ C10_Case
    /\ config.diff_ids = <<DigDiff>>
    /\ manifest.layers # <<>> /\ manifest.layers[1].digest = DigA
    /\ result.ok /\ result.digest = <<"e", "f">>

\* The quantization code each tag of the model stands for: the first code of
\* the table (q4_0, q4_1, q5_0, q5_1, q8_0, ..., fp16) found in the
\* lower-cased tag, upper-cased; none for "latest".
TagCode(tag) ==
    CASE tag = TagLatest   -> <<>>
      [] tag = TagQ4KM     -> <<"Q", "4", "_", "K", "_", "M">>
      [] tag = TagUpperQ8  -> <<"Q", "8", "_", "0">>
      [] tag = TagTwoCodes -> <<"Q", "4", "_", "0">>
      [] tag = TagF16      -> <<"F", "P", "1", "6">>

\* file_type as the config blob leaves it: its 'file_type' when that is set,
\* else its 'general.quantization', else still unset (<<>>).
TypeFromConfig ==
    IF config.kind # "dict" THEN <<>>
    ELSE IF config.hasFileType /\ config.file_type \notin {<<>>, UnknownQuant}
    THEN config.file_type
    ELSE IF config.hasQuantization THEN <<"Q", "5", "_", "K", "_", "M">>
    ELSE <<>>

\* C11: quantization inference runs only if file_type is still unset after
\* the digest steps; it stores the code of the first table pattern found in
\* the lower-cased tag, upper-cased, and "Q4_0" with a warning when none is
\* found ("3b-instruct-q4_k_m" gives "Q4_K_M", "latest" gives "Q4_0");
\* file_type is never empty after a successful resolution.
C11_QuantizationInference ==
    (ResolveDone /\ result.ok) =>
        /\ result.file_type # <<>>
        /\ result.file_type # UnknownQuant
        /\ TypeFromConfig # <<>> =>
              /\ result.file_type = TypeFromConfig
              /\ "default_quant" \notin result.warnings
        /\ (TypeFromConfig = <<>> /\ TagCode(model_params) # <<>>) =>
              /\ result.file_type = TagCode(model_params)
              /\ "default_quant" \notin result.warnings
        /\ (TypeFromConfig = <<>> /\ TagCode(model_params) = <<>>) =>
              /\ result.file_type = <<"Q", "4", "_", "0">>
              /\ "default_quant" \in result.warnings

\* An upper-case tag whose code is found after lower-casing.
C11_Witness ==
    /\ ResolveDone /\ result.ok
    /\ model_params = TagUpperQ8
    /\ config.kind = "none"
    /\ result.file_type = <<"Q", "8", "_", "0">>

\* C12: general.quantization is written to file_type only if file_type is
\* still unset at that point (the config's own file_type goes first), and a
\* file_type from the config is not replaced by the tag's code:
\* quantization "Q5_K_M" with no file_type gives "Q5_K_M" whatever the tag.
C12_ConfigQuantization ==
    (ResolveDone /\ result.ok /\ config.kind = "dict") =>
        /\ (config.hasFileType /\ config.file_type \notin {<<>>, UnknownQuant}) =>
              result.file_type = config.file_type
        /\ (config.hasQuantization
            /\ (~config.hasFileType \/ config.file_type \in {<<>>, UnknownQuant})) =>
              result.file_type = <<"Q", "5", "_", "K", "_", "M">>
        /\ (~config.hasQuantization
            /\ (~config.hasFileType \/ config.file_type \in {<<>>, UnknownQuant})) =>
              result.file_type = (IF TagCode(model_params) = <<>>
                                  THEN <<"Q", "4", "_", "0">>
                                  ELSE TagCode(model_params))

\* The tag says q4_k_m, the config blob says Q5_K_M and has no file_type.
C12_Witness ==
    /\ ResolveDone /\ result.ok
    /\ model_params = TagQ4KM
    /\ config.kind = "dict" /\ config.hasQuantization /\ ~config.hasFileType
    /\ result.file_type = <<"Q", "5", "_", "K", "_", "M">>

\* Neither the model layer nor the config blob gave a digest, and there is
\* a first layer.
C14_Case ==
    /\ ~(HasModelLayer(manifest) /\ UsableLayer(FirstModelLayer(manifest)))
    /\ ~(HasDiffIds(config) /\ HexPart(config.diff_ids[1]) # <<>>)
    /\ manifest.layers # <<>>

C14_WithoutDigestField ==
    (ResolveDone /\ result.fallbackRan /\ ~manifest.layers[1].hasDigest) =>
        (~result.ok /\ result.error = "ResolutionError")

\* C14 as stated: the fallback runs only when neither earlier step produced
\* a digest and layers is non-empty; it then returns the first layer's
\* digest, prefix stripped, with a warning, and fails with a resolution
\* error if the first layer has no digest field.
C14_AsStated ==
    /\ (ResolveDone /\ result.fallbackRan) => C14_Case
    /\ (ResolveDone /\ result.fallbackRan /\ manifest.layers[1].hasDigest) =>
          /\ result.ok
          /\ result.digest = HexPart(manifest.layers[1].digest)
          /\ "first_layer_fallback" \in result.warnings
    /\ C14_WithoutDigestField

\* C14 (amended): as stated, except that a first layer whose digest has an
\* empty hex part is not returned: the warning is printed and resolve fails
\* with a resolution error, as it does when the digest field is missing.
C14_FirstLayerFallback ==
    /\ (ResolveDone /\ result.fallbackRan) => C14_Case
    /\ (ResolveDone /\ result.fallbackRan /\ UsableLayer(manifest.layers[1])) =>
          /\ result.ok
          /\ result.digest = HexPart(manifest.layers[1].digest)
          /\ "first_layer_fallback" \in result.warnings
    /\ (ResolveDone /\ result.fallbackRan /\ manifest.layers[1].hasDigest
        /\ ~UsableLayer(manifest.layers[1])) =>
          /\ ~result.ok /\ result.error = "ResolutionError"
          /\ "first_layer_fallback" \in result.warnings
    /\ C14_WithoutDigestField

\* The config blob was read and had no diff-ids; the first layer's digest
\* is returned with the warning.
C14_Witness ==
    /\ ResolveDone /\ result.ok /\ result.fallbackRan
    /\ config.kind = "dict" /\ ~config.hasRootfs
    /\ manifest.layers[1].digest = DigA
    /\ result.digest = <<"a", "b">>
    /\ "first_layer_fallback" \in result.warnings

\* resolve returned the digest of a layer: of the first model layer, or of
\* the first layer by the fallback.
FromLayer == ResolveDone /\ result.ok /\ (~result.configStepRan \/ result.fallbackRan)
SourceLayerDigest ==
    IF result.fallbackRan THEN manifest.layers[1].digest
    ELSE FirstModelLayer(manifest).digest

Colons(s) == {i \in 1..Len(s) : s[i] = ":"}

\* C15 as stated: for every layer digest "<algorithm>:<hex>" that resolve
\* accepts, the digest segment of the download URL is the manifest's digest
\* again and carries exactly one algorithm prefix.
C15_AsStated ==
    FromLayer =>
        /\ BlobDigestArg(result.digest) = SourceLayerDigest
        /\ Cardinality(Colons(BlobDigestArg(result.digest))) = 1

\* C15 (amended): the digest segment of the URL is "sha256:" followed by the
\* hex part of the manifest's digest, with exactly one prefix; it is the
\* manifest's digest again exactly when that digest's algorithm is sha256.
C15_UrlDigestIsSha256 ==
    FromLayer =>
        /\ BlobDigestArg(result.digest) = <<"sha256", ":">> \o HexPart(SourceLayerDigest)
        /\ Cardinality(Colons(BlobDigestArg(result.digest))) = 1
        /\ (BlobDigestArg(result.digest) = SourceLayerDigest)
              <=> (SourceLayerDigest[1] = "sha256")

\* "sha256:ab" of the model layer comes back as the URL's digest segment.
C15_Witness ==
    /\ FromLayer /\ ~result.fallbackRan
    /\ SourceLayerDigest = DigA
    /\ BlobDigestArg(result.digest) = DigA

\* ========================================================================
\* Claims about main and download_model (checked under Spec)
\* ========================================================================

\* C3: while the destination exists and overwrite is not confirmed, the
\* backend is never invoked, no request for the blob is made and the file
\* system is as it was; main ends in the abort.
C3_AbortWithoutConfirmation ==
    (fs0 = "orig" /\ ~user_confirmed_overwrite) =>
        /\ invokeCount = 0
        /\ blobRequests = 0
        /\ fs = [dest |-> "orig", sibling |-> "absent"]
        /\ preRemove = "none" /\ cleanup = "none"
        /\ pc \notin {"Downloading", "Downloaded", "DownloadFailed"}

\* The user declined: main returned at line 291.
C3_Witness ==
    /\ pc = "Aborted"
    /\ fs0 = "orig" /\ fs.dest = "orig"
    /\ result.ok /\ invokeCount = 0

\* C4: in the requests backend a transport failure after the destination
\* file was opened ends in a raised failure; the file is removed, unless the
\* removal itself fails, which is passed over.
C4_TransportFailureRemovesFile ==
    (failure = "TransportError" /\ fileOpened) =>
        /\ pc = "DownloadFailed"
        /\ downloader_choice = "requests"
        /\ cleanup \in {"ok", "failed"}
        /\ cleanup = "ok" => fs.dest = "absent"
        /\ cleanup = "failed" => fs.dest = "partial"

\* The connection broke after a chunk was written and the file is gone.
C4_Witness ==
    /\ failure = "TransportError" /\ fileOpened /\ chunks >= 1
    /\ pc = "DownloadFailed" /\ cleanup = "ok" /\ fs.dest = "absent"

\* C5 as stated: on every exit of a download other than success, once the
\* destination file was opened, the cleanup of the transport failure runs,
\* so no half-written file stays (unless the removal itself fails).
C5_CleanupOnEveryFailure ==
    (pc = "DownloadFailed" /\ fileOpened) =>
        /\ cleanup \in {"ok", "failed"}
        /\ cleanup = "ok" => fs.dest = "absent"

\* C6: for axel and aria2c a non-zero exit code ends in a raised failure,
\* and the destination file is gone, unless its removal fails, which is
\* passed over.
C6_NonZeroExitRemovesFile ==
    (failure = "ExitCodeError") =>
        /\ pc = "DownloadFailed"
        /\ downloader_choice \in {"axel", "aria2c"}
        /\ cleanup \in {"ok", "failed", "notneeded"}
        /\ cleanup # "failed" => fs.dest = "absent"

\* aria2c left a partial file and exited non-zero; the file was removed.
C6_Witness ==
    /\ failure = "ExitCodeError" /\ downloader_choice = "aria2c"
    /\ pc = "DownloadFailed" /\ cleanup = "ok" /\ fs.dest = "absent"

\* C7: with overwrite confirmed, for axel the existing file is removed
\* before the backend is invoked, and a failed removal does not stop the
\* invocation; for aria2c the file is not removed up front and the
\* overwrite flag is on the command line exactly when overwrite was confirmed.
C7_OverwriteHandling ==
    /\ (downloader_choice = "axel" /\ user_confirmed_overwrite) =>
          /\ preRemove \in {"ok", "failed"}
          /\ pc \in {"Downloading", "Downloaded", "DownloadFailed"}
          /\ (pc = "Downloading" /\ invokeCount = 0) =>
                /\ fs.dest = (IF preRemove = "ok" THEN "absent" ELSE "orig")
                /\ ENABLED RunAxel
          /\ invokeCount > 0 =>
                destAtInvoke = (IF preRemove = "ok" THEN "absent" ELSE "orig")
    /\ ~user_confirmed_overwrite => preRemove = "none"
    /\ downloader_choice = "aria2c" =>
          /\ preRemove = "none"
          /\ invokeCount > 0 =>
                /\ destAtInvoke = fs0
                /\ cmdOverwriteFlag = user_confirmed_overwrite

\* axel was run although the removal of the existing file had failed.
C7_Witness ==
    /\ downloader_choice = "axel" /\ user_confirmed_overwrite
    /\ preRemove = "failed" /\ invokeCount = 1 /\ destAtInvoke = "orig"

\* The transitions of the flow: those of the state machine, and the two
\* returns of main before a download (empty input, overwrite declined).
FlowEdges ==
    {<<"Idle", "Resolving">>, <<"Idle", "Exited">>,
     <<"Resolving", "Resolved">>, <<"Resolving", "ResolutionFailed">>,
     <<"Resolved", "Downloading">>, <<"Resolved", "Aborted">>,
     <<"Downloading", "Downloaded">>, <<"Downloading", "DownloadFailed">>}

\* C8: the flow follows Idle -> Resolving -> (ResolutionFailed | Resolved ->
\* Downloading -> (Downloaded | DownloadFailed)); no state is entered twice,
\* there is at most one resolution and one backend invocation, a failed
\* resolution is final and never followed by a download, a failed download
\* is final.
C8_SingleAttemptFlow ==
    /\ history[1] = "Idle" /\ history[Len(history)] = pc
    /\ \A i \in 1..(Len(history) - 1) : <<history[i], history[i + 1]>> \in FlowEdges
    /\ \A i, j \in 1..Len(history) : i # j => history[i] # history[j]
    /\ resolveCount <= 1 /\ invokeCount <= 1
    /\ resolveCount = 1 <=> pc \notin {"Idle", "Exited", "Resolving"}
    /\ invokeCount > 0 => (result.ok /\ pc \in {"Downloading", "Downloaded", "DownloadFailed"})
    /\ pc \in {"Downloaded", "DownloadFailed"} => invokeCount = 1
    /\ (resolveCount = 1 /\ ~result.ok) => (pc = "ResolutionFailed" /\ invokeCount = 0)
    /\ pc \in {"ResolutionFailed", "DownloadFailed", "Downloaded"} => ~ENABLED Next

\* A run through to a failed download.
C8_Witness ==
    /\ history = <<"Idle", "Resolving", "Resolved", "Downloading", "DownloadFailed">>
    /\ resolveCount = 1 /\ invokeCount = 1

\* The requests backend received a response with a JSON content type.
JsonResponse ==
    downloader_choice = "requests" /\ response.kind = "response" /\ response.json

\* Reported as a failure, with the destination never opened, created or
\* modified.
C16_FailedAndUntouched ==
    /\ pc = "DownloadFailed"
    /\ ~fileOpened
    /\ fs.dest = destAtInvoke
    /\ cleanup = "none"

C16_Message ==
    /\ response.body = "message" => failure = "ServerJsonError"
    /\ response.body \in {"emptyerrors", "unparsable"} => failure = "ServerNonBinaryError"

\* C16 as stated: a response whose content type is JSON is always reported
\* as a download failure, with the server's message when it can be
\* extracted and the generic non-binary error otherwise, and the
\* destination file is never opened, created or modified.
C16_AsStated ==
    JsonResponse =>
        /\ C16_FailedAndUntouched
        /\ failure \in {"ServerJsonError", "ServerNonBinaryError"}
        /\ C16_Message

\* C16 (amended): a response that passes the status check and whose content
\* type is JSON is always a failure that leaves the destination unopened
\* and unmodified; the error is the server's message for a JSON object
\* whose errors list is missing or non-empty, and the generic non-binary
\* error for a body that is not JSON or has an empty errors list.  With an
\* error status the response is an HTTP error first, whatever its content
\* type, and the handler removes an existing destination.
C16_JsonResponseFails ==
    /\ (JsonResponse /\ response.status = "ok") =>
          /\ C16_FailedAndUntouched
          /\ C16_Message
    /\ (JsonResponse /\ response.status # "ok") =>
          /\ pc = "DownloadFailed" /\ ~fileOpened
          /\ failure \in {"BlobNotFound", "HttpError"}
          /\ destAtInvoke = "orig" => cleanup \in {"ok", "failed"}
          /\ cleanup = "ok" => fs.dest = "absent"

\* A JSON error body with status 200 while a confirmed-overwrite file is
\* there: the file is still the original.
C16_Witness ==
    /\ JsonResponse /\ response.status = "ok" /\ response.body = "message"
    /\ failure = "ServerJsonError" /\ pc = "DownloadFailed"
    /\ user_confirmed_overwrite /\ fs.dest = "orig"

\* The requests backend failed with a transport or HTTP error before the
\* file was opened, and a file was there when it started.
C17_Case ==
    /\ downloader_choice = "requests" /\ pc = "DownloadFailed"
    /\ failure \in {"TransportError", "HttpError", "BlobNotFound"}
    /\ ~fileOpened
    /\ destAtInvoke = "orig"

\* C17 as stated: such a failure deletes the pre-existing file, so no file
\* exists at the destination afterwards.
C17_AsStated == C17_Case => fs.dest = "absent"

\* C17 (amended): such a failure runs the removal on the pre-existing file:
\* the file is gone afterwards unless the removal itself fails, which is
\* passed over and leaves the original file.
C17_PreExistingFileRemoved ==
    C17_Case =>
        /\ user_confirmed_overwrite
        /\ cleanup \in {"ok", "failed"}
        /\ cleanup = "ok" => fs.dest = "absent"
        /\ cleanup = "failed" => fs.dest = "orig"

\* A 404 on the blob removed the file the user had agreed to overwrite.
C17_Witness ==
    /\ C17_Case /\ failure = "BlobNotFound"
    /\ cleanup = "ok" /\ fs.dest = "absent" /\ fs0 = "orig"

\* The external program could not be started.
C18_Case == failure = "BackendUnavailableError"

C18_NoCleanup ==
    /\ pc = "DownloadFailed"
    /\ downloader_choice \in {"axel", "aria2c"}
    /\ cleanup = "none"
    /\ blobRequests = 0
    /\ fs = [dest |-> destAtInvoke, sibling |-> "absent"]

C18_Aria2cKeepsFile ==
    (downloader_choice = "aria2c" /\ user_confirmed_overwrite) => fs.dest = "orig"

\* C18 as stated: a binary that cannot be started gives the
\* backend-unavailable error without any cleanup; after a confirmed
\* overwrite the original file is gone with axel and still there with aria2c.
C18_AsStated ==
    C18_Case =>
        /\ C18_NoCleanup
        /\ (downloader_choice = "axel" /\ user_confirmed_overwrite) => fs.dest = "absent"
        /\ C18_Aria2cKeepsFile

\* C18 (amended): the same, with the original file gone for axel when the
\* removal before the download succeeded; when that removal failed (only a
\* warning) the original file is still there.
C18_BackendUnavailable ==
    C18_Case =>
        /\ C18_NoCleanup
        /\ (downloader_choice = "axel" /\ user_confirmed_overwrite) =>
              /\ preRemove \in {"ok", "failed"}
              /\ preRemove = "ok" => fs.dest = "absent"
              /\ preRemove = "failed" => fs.dest = "orig"
        /\ C18_Aria2cKeepsFile

\* axel was not found after the original file had been removed for it.
C18_Witness ==
    /\ C18_Case /\ downloader_choice = "axel" /\ user_confirmed_overwrite
    /\ preRemove = "ok" /\ fs0 = "orig" /\ fs.dest = "absent"
    /\ pc = "DownloadFailed"

====
